---- MODULE Spec2Model ----
(***************************************************************************)
(* node-webp: a wrapper that resolves the vendored cwebp/dwebp binary of   *)
(* the running platform, derives the output path of an image, builds the   *)
(* argument list of cwebp from an options object and runs it as a child    *)
(* process.  At module load the two binaries are chmod-ed, unawaited.      *)
(*                                                                         *)
(* Strings the code inspects character by character (file paths) are       *)
(* sequences of one-character strings; Str turns them into the strings     *)
(* that go into the argument list.  Resolved binary paths are sequences of *)
(* path segments.                                                          *)
(***************************************************************************)
EXTENDS Integers, Sequences, FiniteSets, TLC

VARIABLES
    platform,       \* process.platform
    fileMode,       \* permission bits of the two vendored binaries
    grantPc,        \* grantPermissions: "load", "chmod_cwebp", "chmod_dwebp", "done", "failed"
    chmodPaths,     \* grantPermissions' locals cwebp and dwebp
    alive,          \* the host process is running
    pc,             \* compress: "idle", "awaiting", "resolved", "rejected"
    imageFilepath,  \* compress' first parameter
    options,        \* compress' second parameter
    command,        \* compress' local command
    outputFilepath, \* compress' local outputFilepath
    args,           \* compress' local args
    child,          \* the cwebp child process
    outputExists,   \* a file exists at the output path
    result,         \* what the promise of compress resolved with
    error,          \* what the promise of compress rejected with
    spawns          \* child processes started by the call

vars == <<platform, fileMode, grantPc, chmodPaths, alive, pc, imageFilepath,
          options, command, outputFilepath, args, child, outputExists,
          result, error, spawns>>

(***************************************************************************)
(* Bounds and input sets                                                   *)
(***************************************************************************)
MaxLen == 6

Chars == {"/", "\\", ".", "a"}

\* A path names a file: there is a letter after its last separator.
namesFile(p) ==
    \E i \in 1..Len(p) :
        /\ p[i] = "a"
        /\ \A j \in (i + 1)..Len(p) : p[j] \notin {"/", "\\"}

Paths == {p \in UNION {[1..n -> Chars] : n \in 1..MaxLen} : namesFile(p)}

SamplePaths ==
    { <<"a", ".", "a">>,
      <<"a">>,
      <<".", "a", "/", "a", ".", "a">> }

Platforms == {"win32", "linux", "darwin", "freebsd"}

PathPlatforms == {"win32", "linux", "freebsd"}

Tools == {"cwebp", "dwebp"}

StderrTexts == {"", "cwebp: diagnostics"}

(***************************************************************************)
(* util: getCommand                                                        *)
(***************************************************************************)
dirname == <<"node_modules", "node-webp", "lib">>

RECURSIVE normalize(_, _)
normalize(segments, acc) ==
    IF segments = <<>> THEN acc
    ELSE IF Head(segments) = ".." /\ acc # <<>> /\ acc[Len(acc)] # ".."
         THEN normalize(Tail(segments), SubSeq(acc, 1, Len(acc) - 1))
    ELSE IF Head(segments) = "."
         THEN normalize(Tail(segments), acc)
    ELSE normalize(Tail(segments), Append(acc, Head(segments)))

join(segments) == normalize(segments, <<>>)

Supported == {"win32", "linux", "darwin"}

platformFolderSwapped(p) ==
    CASE p = "win32"  -> "windows-x64"
      [] p = "linux"  -> "linux-x86-64"
      [] p = "darwin" -> "linux-x86-64"

platformFolder(p) ==
    CASE p = "win32"  -> "windows-x64"
      [] p = "linux"  -> "linux-x86-64"
      [] p = "darwin" -> "mac-x86-64"

PlatformError == [kind |-> "Error", message |-> "Platform is not supported", stderr |-> ""]

getCommand(cmd) ==
    IF platform \in Supported
    THEN [threw |-> FALSE,
          value |-> join(dirname \o <<"..">> \o <<"webp", platformFolder(platform), cmd>>)]
    ELSE [threw |-> TRUE, value |-> <<>>]

(***************************************************************************)
(* util: getOutputFilepath, with path.extname and String.prototype.replace *)
(***************************************************************************)
isPathSeparator(code) ==
    \/ code = "/"
    \/ platform = "win32" /\ code = "\\"

RECURSIVE extnameLoop(_, _, _)
extnameLoop(path, i, s) ==
    IF i < 0 THEN s
    ELSE LET code == path[i + 1] IN
         IF isPathSeparator(code)
         THEN IF ~s.matchedSlash
              THEN [s EXCEPT !.startPart = i + 1]
              ELSE extnameLoop(path, i - 1, s)
         ELSE LET s1 == IF s.end = -1
                        THEN [s EXCEPT !.matchedSlash = FALSE, !.end = i + 1]
                        ELSE s
                  s2 == IF code = "."
                        THEN IF s1.startDot = -1
                             THEN [s1 EXCEPT !.startDot = i]
                             ELSE IF s1.preDotState # 1
                                  THEN [s1 EXCEPT !.preDotState = 1]
                                  ELSE s1
                        ELSE IF s1.startDot # -1
                             THEN [s1 EXCEPT !.preDotState = -1]
                             ELSE s1
              IN extnameLoop(path, i - 1, s2)

extname(path) ==
    LET s == extnameLoop(path, Len(path) - 1,
                         [startDot |-> -1, startPart |-> 0, end |-> -1,
                          matchedSlash |-> TRUE, preDotState |-> 0])
    IN IF \/ s.startDot = -1
          \/ s.end = -1
          \/ s.preDotState = 0
          \/ (s.preDotState = 1 /\ s.startDot = s.end - 1
                                /\ s.startDot = s.startPart + 1)
       THEN <<>>
       ELSE SubSeq(path, s.startDot + 1, s.end)

\* 1-based index of the first occurrence of pat in str; 0 when there is none.
indexOf(str, pat) ==
    LET hits == {i \in 1..(Len(str) - Len(pat) + 1) :
                    SubSeq(str, i, i + Len(pat) - 1) = pat}
    IN IF hits = {} THEN 0 ELSE CHOOSE i \in hits : \A j \in hits : i <= j

\* str.replace(pat, rep) with a string pattern: the first occurrence only.
replace(str, pat, rep) ==
    LET at == indexOf(str, pat)
    IN IF at = 0 THEN str
       ELSE SubSeq(str, 1, at - 1) \o rep \o SubSeq(str, at + Len(pat), Len(str))

WEBP == <<".", "w", "e", "b", "p">>

getOutputFilepath(path) == replace(path, extname(path), WEBP)

RECURSIVE Str(_)
Str(s) == IF Len(s) = 0 THEN "" ELSE Head(s) \o Str(Tail(s))

(***************************************************************************)
(* compress: the options object                                            *)
(*                                                                         *)
(* An options object is a function from the names of the fields it has to  *)
(* their values; a field that is absent is not in its domain.  The second  *)
(* parameter of compress is [given |-> FALSE] when no object is passed.    *)
(***************************************************************************)
Absent == [f \in {} |-> TRUE]

Has(o, f) == f \in DOMAIN o

Undefined == [given |-> FALSE, value |-> Absent]

QualityChoices == {Absent, [quality |-> 0], [quality |-> 80]}

ResizeChoices == {Absent, [resize |-> [width |-> 100, height |-> 0]]}

CropChoices ==
    {Absent, [crop |-> [xPosition |-> 0, yPosition |-> 10, width |-> 20, height |-> 30]]}

LosslessChoices ==
    { Absent,
      [lossless |-> Absent],
      [lossless |-> [level |-> 0]],
      [lossless |-> [level |-> 6]],
      [lossless |-> [preserveTransparency |-> TRUE]],
      [lossless |-> [preserveTransparency |-> FALSE]],
      [lossless |-> [level |-> 0, preserveTransparency |-> TRUE]],
      [lossless |-> [level |-> 6, preserveTransparency |-> TRUE]] }

NearLosslessChoices == {Absent, [nearLossless |-> 0], [nearLossless |-> 60]}

AlphaQualityChoices == {Absent, [alphaQuality |-> 0], [alphaQuality |-> 100]}

PresetChoices == {Absent, [preset |-> "photo"]}

CompressionLevelChoices == {Absent, [compressionLevel |-> 0], [compressionLevel |-> 4]}

MultiThreadedChoices == {Absent, [multiThreaded |-> FALSE], [multiThreaded |-> TRUE]}

LowMemoryChoices == {Absent, [lowMemory |-> TRUE]}

AllOptions ==
    {Undefined} \cup
    { [given |-> TRUE, value |-> q @@ r @@ c @@ l @@ n @@ a @@ p @@ m @@ t @@ w] :
        q \in QualityChoices, r \in ResizeChoices, c \in CropChoices,
        l \in LosslessChoices, n \in NearLosslessChoices,
        a \in AlphaQualityChoices, p \in PresetChoices,
        m \in CompressionLevelChoices, t \in MultiThreadedChoices,
        w \in LowMemoryChoices }

SampleOptions ==
    { Undefined,
      [given |-> TRUE, value |-> [quality |-> 80, multiThreaded |-> TRUE]] }

(***************************************************************************)
(* compress: the argument list                                             *)
(***************************************************************************)
Digits == <<"0", "1", "2", "3", "4", "5", "6", "7", "8", "9">>

\* `${n}` for a non-negative integer n.
RECURSIVE NumStr(_)
NumStr(n) == IF n < 10 THEN Digits[n + 1]
             ELSE NumStr(n \div 10) \o Digits[(n % 10) + 1]

\* if (x) for a number, a string and a boolean field of o.
truthyNumber(o, f) == Has(o, f) /\ o[f] # 0

truthyString(o, f) == Has(o, f) /\ o[f] # ""

truthyBoolean(o, f) == Has(o, f) /\ o[f] = TRUE

qualityArgs(o) ==
    IF truthyNumber(o, "quality") THEN <<"-q " \o NumStr(o.quality)>> ELSE <<>>

resizeArgs(o) ==
    IF Has(o, "resize")
    THEN <<"-resize " \o NumStr(o.resize.width) \o " " \o NumStr(o.resize.height)>>
    ELSE <<>>

cropArgs(o) ==
    IF Has(o, "crop")
    THEN <<"-crop " \o NumStr(o.crop.xPosition) \o " " \o NumStr(o.crop.yPosition)
                    \o " " \o NumStr(o.crop.width) \o " " \o NumStr(o.crop.height)>>
    ELSE <<>>

losslessArgs(o) ==
    IF Has(o, "lossless")
    THEN IF truthyNumber(o.lossless, "level")
         THEN <<"-z " \o NumStr(o.lossless.level)>>
         ELSE <<"-lossless">> \o
              (IF truthyBoolean(o.lossless, "preserveTransparency")
               THEN <<"-exact">> ELSE <<>>)
    ELSE <<>>

nearLosslessArgs(o) ==
    IF truthyNumber(o, "nearLossless")
    THEN <<"-near_lossless " \o NumStr(o.nearLossless)>> ELSE <<>>

alphaQualityArgs(o) ==
    IF truthyNumber(o, "alphaQuality")
    THEN <<"-alpha_q " \o NumStr(o.alphaQuality)>> ELSE <<>>

presetArgs(o) ==
    IF truthyString(o, "preset") THEN <<"-preset " \o o.preset>> ELSE <<>>

compressionLevelArgs(o) ==
    IF truthyNumber(o, "compressionLevel")
    THEN <<"-m " \o NumStr(o.compressionLevel)>> ELSE <<>>

multiThreadedArgs(o) ==
    IF truthyBoolean(o, "multiThreaded") THEN <<"-mt">> ELSE <<>>

lowMemoryArgs(o) ==
    IF truthyBoolean(o, "lowMemory") THEN <<"-low_memory">> ELSE <<>>

optionArgsPresetFirst(o) ==
    presetArgs(o) \o qualityArgs(o) \o resizeArgs(o) \o cropArgs(o) \o losslessArgs(o)
    \o nearLosslessArgs(o) \o alphaQualityArgs(o)
    \o compressionLevelArgs(o) \o multiThreadedArgs(o) \o lowMemoryArgs(o)

optionArgs(o) ==
    qualityArgs(o) \o resizeArgs(o) \o cropArgs(o) \o losslessArgs(o)
    \o nearLosslessArgs(o) \o alphaQualityArgs(o) \o presetArgs(o)
    \o compressionLevelArgs(o) \o multiThreadedArgs(o) \o lowMemoryArgs(o)

buildArgs(image, output, opts) ==
    <<Str(image), "-o", Str(output)>> \o
    (IF opts.given THEN optionArgs(opts.value) ELSE <<>>)

(***************************************************************************)
(* index: grantPermissions, started at module load and not awaited         *)
(***************************************************************************)
Mode755 == 493

InitialModes == {420, 493}

\* The owner's execute bit (0o100) of a file mode.
isExecutable(mode) == (mode \div 64) % 2 = 1

NoError == [kind |-> "none", message |-> "", stderr |-> ""]

NoResult == [log |-> "", outputFilepath |-> <<>>, settled |-> FALSE]

NoChild == [state |-> "none", canExec |-> FALSE, stderr |-> ""]

\* Module load: grantPermissions() runs up to its first await.  getCommand
\* throws on an unsupported platform, which rejects the unobserved promise.
Load ==
    /\ alive
    /\ grantPc = "load"
    /\ IF getCommand("cwebp").threw \/ getCommand("dwebp").threw
       THEN /\ grantPc' = "failed"
            /\ UNCHANGED chmodPaths
       ELSE /\ grantPc' = "chmod_cwebp"
            /\ chmodPaths' = [cwebp |-> getCommand("cwebp").value,
                              dwebp |-> getCommand("dwebp").value]
    /\ UNCHANGED <<platform, fileMode, alive, pc, imageFilepath, options, command,
                   outputFilepath, args, child, outputExists, result, error, spawns>>

ChmodCwebpOk ==
    /\ alive
    /\ grantPc = "chmod_cwebp"
    /\ fileMode' = [fileMode EXCEPT !.cwebp = Mode755]
    /\ grantPc' = "chmod_dwebp"
    /\ UNCHANGED <<platform, chmodPaths, alive, pc, imageFilepath, options, command,
                   outputFilepath, args, child, outputExists, result, error, spawns>>

\* chmod fails (EPERM, ENOENT, a read-only file system): the await throws,
\* the second chmod is never started.
ChmodCwebpFail ==
    /\ alive
    /\ grantPc = "chmod_cwebp"
    /\ grantPc' = "failed"
    /\ UNCHANGED <<platform, fileMode, chmodPaths, alive, pc, imageFilepath, options,
                   command, outputFilepath, args, child, outputExists, result, error,
                   spawns>>

ChmodDwebpOk ==
    /\ alive
    /\ grantPc = "chmod_dwebp"
    /\ fileMode' = [fileMode EXCEPT !.dwebp = Mode755]
    /\ grantPc' = "done"
    /\ UNCHANGED <<platform, chmodPaths, alive, pc, imageFilepath, options, command,
                   outputFilepath, args, child, outputExists, result, error, spawns>>

ChmodDwebpFail ==
    /\ alive
    /\ grantPc = "chmod_dwebp"
    /\ grantPc' = "failed"
    /\ UNCHANGED <<platform, fileMode, chmodPaths, alive, pc, imageFilepath, options,
                   command, outputFilepath, args, child, outputExists, result, error,
                   spawns>>

\* Nothing handles the rejection of grantPermissions(): depending on the
\* runtime's unhandled-rejection mode the process goes on or is terminated.
UnhandledRejectionExit ==
    /\ alive
    /\ grantPc = "failed"
    /\ alive' = FALSE
    /\ UNCHANGED <<platform, fileMode, grantPc, chmodPaths, pc, imageFilepath, options,
                   command, outputFilepath, args, child, outputExists, result, error,
                   spawns>>

(***************************************************************************)
(* compress                                                                *)
(***************************************************************************)
CanCallAfterGrant == alive /\ grantPc = "done" /\ pc = "idle"

\* compress is exported as soon as the module is loaded; nothing makes a
\* caller wait for grantPermissions.
CanCall == alive /\ grantPc # "load" /\ pc = "idle"

\* compress(image, opts) up to its await: resolve the encoder, derive the
\* output path, build the argument list and start the child process.
CompressCall(image, opts) ==
    /\ CanCall
    /\ imageFilepath' = image
    /\ options' = opts
    /\ IF getCommand("cwebp").threw
       THEN /\ pc' = "rejected"
            /\ error' = PlatformError
            /\ UNCHANGED <<command, outputFilepath, args, child, spawns>>
       ELSE /\ command' = getCommand("cwebp").value
            /\ outputFilepath' = getOutputFilepath(image)
            /\ args' = buildArgs(image, getOutputFilepath(image), opts)
            /\ child' = [state |-> "running",
                         canExec |-> isExecutable(fileMode.cwebp),
                         stderr |-> ""]
            /\ spawns' = spawns + 1
            /\ pc' = "awaiting"
            /\ UNCHANGED error
    /\ UNCHANGED <<platform, fileMode, grantPc, chmodPaths, alive, outputExists, result>>

compressResultInputPath(stderr) ==
    [log |-> stderr, outputFilepath |-> imageFilepath, settled |-> TRUE]

\* return { log: stderr, outputFilepath }
compressResult(stderr) ==
    [log |-> stderr, outputFilepath |-> outputFilepath, settled |-> TRUE]

\* The child exits with code 0: execute resolves; cwebp may or may not have
\* written the output file.
ChildExitOk(stderr, wrote) ==
    /\ alive
    /\ pc = "awaiting"
    /\ child.state = "running"
    /\ child.canExec
    /\ child' = [child EXCEPT !.state = "exit0", !.stderr = stderr]
    /\ outputExists' = (outputExists \/ wrote)
    /\ result' = compressResult(stderr)
    /\ pc' = "resolved"
    /\ UNCHANGED <<platform, fileMode, grantPc, chmodPaths, alive, imageFilepath,
                   options, command, outputFilepath, args, error, spawns>>

ChildExitFailRetry(stderr) ==
    /\ alive
    /\ pc = "awaiting"
    /\ child.state = "running"
    /\ child' = [state |-> "running", canExec |-> isExecutable(fileMode.cwebp),
                 stderr |-> ""]
    /\ spawns' = spawns + 1
    /\ UNCHANGED <<platform, fileMode, grantPc, chmodPaths, alive, pc, imageFilepath,
                   options, command, outputFilepath, args, outputExists, result, error>>

\* The child exits with a non-zero code (the shell could not run the
\* encoder, or the encoder rejected its input): execute rejects.
ChildExitFail(stderr) ==
    /\ alive
    /\ pc = "awaiting"
    /\ child.state = "running"
    /\ child' = [child EXCEPT !.state = "nonzero", !.stderr = stderr]
    /\ error' = [kind |-> "ExecError", message |-> "Command failed", stderr |-> stderr]
    /\ pc' = "rejected"
    /\ UNCHANGED <<platform, fileMode, grantPc, chmodPaths, alive, imageFilepath,
                   options, command, outputFilepath, args, outputExists, result, spawns>>

\* The child could not be started at all (the shell is missing, the process
\* table is full): execute rejects with the spawn error.
ChildSpawnError ==
    /\ alive
    /\ pc = "awaiting"
    /\ child.state = "running"
    /\ child' = [child EXCEPT !.state = "spawn_error"]
    /\ error' = [kind |-> "SpawnError", message |-> "spawn failed", stderr |-> ""]
    /\ pc' = "rejected"
    /\ UNCHANGED <<platform, fileMode, grantPc, chmodPaths, alive, imageFilepath,
                   options, command, outputFilepath, args, outputExists, result, spawns>>

(***************************************************************************)
(* Specifications                                                          *)
(***************************************************************************)
InitLocals ==
    /\ alive = TRUE
    /\ pc = "idle"
    /\ imageFilepath = <<>>
    /\ options = Undefined
    /\ command = <<>>
    /\ outputFilepath = <<>>
    /\ args = <<>>
    /\ child = NoChild
    /\ outputExists \in BOOLEAN
    /\ result = NoResult
    /\ error = NoError
    /\ spawns = 0

\* The process before the module is loaded.
Init ==
    /\ platform \in Platforms
    /\ fileMode \in [Tools -> InitialModes]
    /\ grantPc = "load"
    /\ chmodPaths = <<>>
    /\ InitLocals

\* The process once grantPermissions has settled without a chmod failure.
InitSettled(platforms) ==
    /\ platform \in platforms
    /\ IF platform \in Supported
       THEN /\ grantPc = "done"
            /\ fileMode = [t \in Tools |-> Mode755]
            /\ chmodPaths = [cwebp |-> getCommand("cwebp").value,
                             dwebp |-> getCommand("dwebp").value]
       ELSE /\ grantPc = "failed"
            /\ fileMode \in [Tools -> InitialModes]
            /\ chmodPaths = <<>>
    /\ InitLocals

ChildSettles ==
    \/ \E stderr \in StderrTexts, wrote \in BOOLEAN : ChildExitOk(stderr, wrote)
    \/ \E stderr \in StderrTexts : ChildExitFail(stderr)
    \/ ChildSpawnError

CallSample ==
    /\ pc = "idle"
    /\ \E image \in SamplePaths, opts \in SampleOptions : CompressCall(image, opts)

Next ==
    \/ Load
    \/ ChmodCwebpOk
    \/ ChmodCwebpFail
    \/ ChmodDwebpOk
    \/ ChmodDwebpFail
    \/ UnhandledRejectionExit
    \/ CallSample
    \/ ChildSettles

Spec == Init /\ [][Next]_vars

\* compress on every path up to MaxLen characters.
InitPath == InitSettled(PathPlatforms)

CallPath ==
    /\ pc = "idle"
    /\ \E image \in Paths, opts \in SampleOptions : CompressCall(image, opts)

NextPath == CallPath \/ ChildSettles

SpecPath == InitPath /\ [][NextPath]_vars

\* compress on every options object.
InitArgs == InitSettled(Platforms)

CallArgs ==
    /\ pc = "idle"
    /\ \E opts \in AllOptions : CompressCall(<<"a", ".", "a">>, opts)

NextArgs == CallArgs \/ ChildSettles

SpecArgs == InitArgs /\ [][NextArgs]_vars

(***************************************************************************)
(* Helpers of the properties                                               *)
(***************************************************************************)
Range(seq) == {seq[i] : i \in DOMAIN seq}

EndsWith(seq, suffix) ==
    /\ Len(seq) >= Len(suffix)
    /\ SubSeq(seq, Len(seq) - Len(suffix) + 1, Len(seq)) = suffix

\* The call got past getCommand: the output path and the arguments exist.
Derived == spawns > 0

ExpectedFolder == [win32 |-> "windows-x64", linux |-> "linux-x86-64", darwin |-> "mac-x86-64"]

\* The last path separator and the last dot of the final segment (0: none).
LastSep(p) ==
    LET at == {i \in 1..Len(p) : isPathSeparator(p[i])}
    IN IF at = {} THEN 0 ELSE CHOOSE i \in at : \A j \in at : j <= i

LastDot(p) ==
    LET at == {i \in (LastSep(p) + 1)..Len(p) : p[i] = "."}
    IN IF at = {} THEN 0 ELSE CHOOSE i \in at : \A j \in at : j <= i

\* The dot that starts the trailing extension: the last dot of the final
\* segment, when it is not the first character of the segment (0: none).
ExtensionDot(p) ==
    IF LastDot(p) > LastSep(p) + 1 /\ SubSeq(p, LastSep(p) + 1, Len(p)) # <<".", ".">>
    THEN LastDot(p) ELSE 0

\* The final segment has an extension of at least one character after the dot.
HasExtension(p) == ExtensionDot(p) # 0 /\ ExtensionDot(p) < Len(p)

\* The path without its trailing extension.
Stem(p) == IF ExtensionDot(p) # 0 THEN SubSeq(p, 1, ExtensionDot(p) - 1) ELSE p

NumberValues == {0, 4, 6, 60, 80, 100}

QualityForms == {"-q " \o NumStr(v) : v \in NumberValues}

ResizeForms == {"-resize " \o NumStr(o.resize.width) \o " " \o NumStr(o.resize.height) :
                   o \in ResizeChoices \ {Absent}}

CropForms == {"-crop " \o NumStr(o.crop.xPosition) \o " " \o NumStr(o.crop.yPosition)
                       \o " " \o NumStr(o.crop.width) \o " " \o NumStr(o.crop.height) :
                 o \in CropChoices \ {Absent}}

LevelForms == {"-z " \o NumStr(v) : v \in NumberValues}

NearLosslessForms == {"-near_lossless " \o NumStr(v) : v \in NumberValues}

AlphaQualityForms == {"-alpha_q " \o NumStr(v) : v \in NumberValues}

PresetForms == {"-preset " \o v :
                   v \in {"default", "photo", "picture", "drawing", "icon", "text"}}

CompressionLevelForms == {"-m " \o NumStr(v) : v \in NumberValues}

\* The place of an argument in the fixed order of the flags; 0 for a string
\* that is none of the flags.
Rank(arg) ==
    CASE arg \in QualityForms          -> 1
      [] arg \in ResizeForms           -> 2
      [] arg \in CropForms             -> 3
      [] arg \in LevelForms            -> 4
      [] arg = "-lossless"             -> 4
      [] arg = "-exact"                -> 5
      [] arg \in NearLosslessForms     -> 6
      [] arg \in AlphaQualityForms     -> 7
      [] arg \in PresetForms           -> 8
      [] arg \in CompressionLevelForms -> 9
      [] arg = "-mt"                   -> 10
      [] arg = "-low_memory"           -> 11
      [] OTHER                         -> 0

\* The options object of the call, with no field when none was passed.
Opts == IF options.given THEN options.value ELSE Absent

(***************************************************************************)
(* Properties                                                              *)
(***************************************************************************)

\* C1: getCommand(tool), for cwebp and dwebp, returns a path ending in
\* windows-x64/<tool> on win32, linux-x86-64/<tool> on linux and
\* mac-x86-64/<tool> on darwin; on any other platform it returns no path and
\* throws, so grantPermissions never reaches a chmod and compress rejects
\* with the platform error without resolving a command.
C1_GetCommand ==
    /\ \A tool \in Tools :
          IF platform \in {"win32", "linux", "darwin"}
          THEN /\ ~getCommand(tool).threw
               /\ EndsWith(getCommand(tool).value, <<ExpectedFolder[platform], tool>>)
          ELSE /\ getCommand(tool).threw
               /\ getCommand(tool).value = <<>>
    /\ IF platform \in {"win32", "linux", "darwin"}
       THEN /\ grantPc # "load" =>
                  \A tool \in Tools :
                      EndsWith(chmodPaths[tool], <<ExpectedFolder[platform], tool>>)
            /\ pc # "idle" =>
                  EndsWith(command, <<ExpectedFolder[platform], "cwebp">>)
       ELSE /\ grantPc \in {"load", "failed"}
            /\ chmodPaths = <<>>
            /\ command = <<>>
            /\ pc \in {"idle", "rejected"}
            /\ pc = "rejected" => error = PlatformError

C1_Witness ==
    /\ platform = "darwin"
    /\ pc = "awaiting"
    /\ command = <<"node_modules", "node-webp", "webp", "mac-x86-64", "cwebp">>
    /\ grantPc = "chmod_dwebp"
    /\ chmodPaths.dwebp = <<"node_modules", "node-webp", "webp", "mac-x86-64", "dwebp">>

\* C2: for every input path whose final segment has an extension, the
\* derived output path is the input with only that trailing extension
\* replaced by ".webp": everything before the last dot of the final segment
\* is unchanged.
C2_OnlyTrailingExtension ==
    (Derived /\ HasExtension(imageFilepath)) =>
        outputFilepath = Stem(imageFilepath) \o WEBP

\* C3: getOutputFilepath is idempotent: deriving from an already derived
\* path gives that path again.
C3_Idempotent ==
    Derived => getOutputFilepath(outputFilepath) = outputFilepath

\* C4: the argument list starts with the input path, "-o" and the output
\* path; every further argument is one of the flags, the flags are in the
\* fixed order -q, -resize, -crop, -z or -lossless [-exact], -near_lossless,
\* -alpha_q, -preset, -m, -mt, -low_memory, each at most once, and -mt and
\* -low_memory are bare: whatever follows them is the next flag.
C4_ArgOrder ==
    Derived =>
        /\ Len(args) >= 3
        /\ args[1] = Str(imageFilepath)
        /\ args[2] = "-o"
        /\ args[3] = Str(outputFilepath)
        /\ \A i \in 4..Len(args) : Rank(args[i]) # 0
        /\ \A i, j \in 4..Len(args) : i < j => Rank(args[i]) < Rank(args[j])
        /\ \A i \in 4..Len(args) :
              /\ args[i] = "-exact" => args[i - 1] = "-lossless"
              /\ args[i] = "-mt" => (i = Len(args) \/ args[i + 1] = "-low_memory")
              /\ args[i] = "-low_memory" => i = Len(args)

C4_Witness ==
    /\ pc = "awaiting"
    /\ Len(args) = 14
    /\ args[4] = "-q 80"
    /\ args[7] = "-lossless"
    /\ args[8] = "-exact"
    /\ args[13] = "-mt"
    /\ args[14] = "-low_memory"

\* C5: when options.lossless has a level (0..9) the arguments hold
\* "-z <level>" and neither "-lossless" nor "-exact"; when it has no level
\* they hold "-lossless", followed by "-exact" exactly when
\* preserveTransparency is true.
C5_LosslessBranching ==
    (Derived /\ Has(Opts, "lossless")) =>
        IF Has(Opts.lossless, "level")
        THEN /\ ("-z " \o NumStr(Opts.lossless.level)) \in Range(args)
             /\ "-lossless" \notin Range(args)
             /\ "-exact" \notin Range(args)
        ELSE /\ "-lossless" \in Range(args)
             /\ "-exact" \in Range(args) <=>
                   (/\ Has(Opts.lossless, "preserveTransparency")
                    /\ Opts.lossless.preserveTransparency)

\* C6: a field's flag is in the arguments exactly when the field is present:
\* quality, nearLossless, alphaQuality and compressionLevel give their flag
\* with their value for every value of their range, 0 included; multiThreaded
\* and lowMemory give their bare flag exactly when true.
C6_FlagIffPresent ==
    Derived =>
        /\ \A v \in NumberValues :
              /\ ("-q " \o NumStr(v)) \in Range(args)
                    <=> (Has(Opts, "quality") /\ Opts.quality = v)
              /\ ("-near_lossless " \o NumStr(v)) \in Range(args)
                    <=> (Has(Opts, "nearLossless") /\ Opts.nearLossless = v)
              /\ ("-alpha_q " \o NumStr(v)) \in Range(args)
                    <=> (Has(Opts, "alphaQuality") /\ Opts.alphaQuality = v)
              /\ ("-m " \o NumStr(v)) \in Range(args)
                    <=> (Has(Opts, "compressionLevel") /\ Opts.compressionLevel = v)
        /\ "-mt" \in Range(args)
              <=> (Has(Opts, "multiThreaded") /\ Opts.multiThreaded)
        /\ "-low_memory" \in Range(args)
              <=> (Has(Opts, "lowMemory") /\ Opts.lowMemory)

\* C7: when compress has resolved, the returned outputFilepath is
\* getOutputFilepath(imageFilepath) and is the argument after "-o", and the
\* returned log is the child's standard error, whatever the options are and
\* whether or not a file exists at that path.
C7_Result ==
    pc = "resolved" =>
        /\ result.settled
        /\ result.outputFilepath = getOutputFilepath(imageFilepath)
        /\ args[2] = "-o"
        /\ args[3] = Str(result.outputFilepath)
        /\ result.log = child.stderr

C7_Witness ==
    /\ pc = "resolved"
    /\ ~outputExists
    /\ options.given
    /\ result.log = "cwebp: diagnostics"
    /\ imageFilepath = <<"a", "/", "a", ".", "a">>
    /\ result.outputFilepath = <<"a", "/", "a", ".", "w", "e", "b", "p">>

\* C8: when the child exits non-zero or cannot be started the call is
\* rejected with an error and there is no result; the call starts the
\* encoder at most once, so a failed call is not retried.
C8_FailNoRetry ==
    /\ spawns <= 1
    /\ child.state \in {"nonzero", "spawn_error"} =>
          /\ pc = "rejected"
          /\ error.kind \in {"ExecError", "SpawnError"}
    /\ pc = "rejected" =>
          /\ result = NoResult
          /\ error # NoError
    /\ result # NoResult => (pc = "resolved" /\ child.state = "exit0")

C8_Witness ==
    /\ pc = "rejected"
    /\ child.state = "nonzero"
    /\ child.stderr = "cwebp: diagnostics"
    /\ error.stderr = "cwebp: diagnostics"
    /\ spawns = 1

\* C9: once the module is loaded compress can be called whatever the state
\* of the permission grant is; a call that started the encoder while it was
\* not executable never resolves and is rejected with the error of the
\* child process; a failed grant by itself puts no error on compress.
C9_GrantNotAwaited ==
    /\ (alive /\ grantPc # "load" /\ pc = "idle") => ENABLED CallSample
    /\ (child.state # "none" /\ ~child.canExec) =>
          /\ pc \in {"awaiting", "rejected"}
          /\ pc = "rejected" => error.kind \in {"ExecError", "SpawnError"}
    /\ (grantPc = "failed" /\ pc \in {"idle", "awaiting"}) => error = NoError

C9_Witness ==
    /\ grantPc = "chmod_cwebp"
    /\ ~isExecutable(fileMode.cwebp)
    /\ pc = "rejected"
    /\ child.state = "nonzero"
    /\ ~child.canExec

\* C10: for every input path, with or without an extension, the derived
\* output path ends in ".webp" and keeps the directory part and the base
\* name of the input in front of it.
C10_EndsInWebp ==
    Derived =>
        /\ EndsWith(outputFilepath, WEBP)
        /\ outputFilepath = Stem(imageFilepath) \o WEBP

====
